---- MODULE Spec2Model ----
(***************************************************************************)
(* Cross-domain message relayer: MessageRelayerService                     *)
(* (services/src/message-relayer/service.ts) and the event, hash and relay *)
(* helpers it calls (foundry/ts/src/lib/services/optimism/optimism.ts).    *)
(*                                                                         *)
(* The source chain (L1) log is fixed when the behaviour starts and is     *)
(* read through range queries; the block height a provider reports and the *)
(* confirmation hashes the destination chain (L2) returns are inputs of    *)
(* each step.  keccak256 is modelled as injective on its input.            *)
(***************************************************************************)
EXTENDS Integers, Sequences, FiniteSets, TLC

\* ------------------------------------------------------------------ bounds
\* Highest block number of either chain.
MaxBlock == 2
\* The configured start block (options l1StartBlock, l2StartBlock) when it
\* is not the default 0.
MaxStart == 1
\* Most cycles that fail after inserting part of a batch.  (A read that fails
\* before anything is inserted changes no state and needs no bound.)
MaxFailures == 1
\* Most confirmation hashes one destination scan returns.
MaxConfirm == 2

\* ------------------------------------------------------------ environment
\* The version discriminator of a message nonce: 1 << 240 in the source,
\* scaled down to 1 << 4 so that sequence numbers stay below it.
VersionBit == 16

SenderA == "0xAA"
SenderB == "0xBB"
Senders == {SenderA, SenderB}
TargetAddr == "0xCC"
Payload == "0x1234"
GasLimits == {200000}

\* Nonces carried by the send events of the source log (version 1); its
\* messages differ in their value.
MsgNonces == {VersionBit + 1}
\* msg.value carried by a SentMessageExtension1 event.
ExtValues == {1}

NoExt == [present |-> FALSE, sender |-> SenderA, value |-> 0]
ExtKinds == {NoExt} \cup [present : {TRUE}, sender : Senders, value : ExtValues]

\* One sendMessage call: the SentMessage event and the SentMessageExtension1
\* event (if any) that the same call emits.
Calls == [nonce : MsgNonces, sender : {SenderA}, gasLimit : GasLimits,
          ext : ExtKinds]

\* A block of the source chain holds at most one transaction, made of the
\* sequence of its sendMessage calls.
BlockContents == {<<>>} \cup {<<c>> : c \in Calls}

Blocks == 1..MaxBlock
Heights == 0..MaxBlock

TxHashOf(b) == <<"tx", b>>
\* provider.getBlock(b).timestamp
BlockTimestamp(b) == 1000 + 12 * b

VARIABLES
    pc,                   \* position of the service: init, index, confirm,
                          \* relay, relaying, metrics, sleep, crashed
    messageQueue,         \* state.messageQueue, in Map iteration order
    lastScannedL1Block,   \* state.lastScannedL1Block
    lastScannedL2Block,   \* state.lastScannedL2Block
    metrics,              \* the gauges of metricsSpec
    relayIdx,             \* position of the iterator of relayPendingMessages
    l1StartBlock,         \* options.l1StartBlock
    l1Log,                \* the source chain: block -> calls of its transaction
    failures,             \* cycles that failed part-way through a batch
    step,                 \* history: the operation last performed
    attempts,             \* history: relay attempts of the current cycle
    pendingAtRelay,       \* history: pending hashes when Relaying began
    tx,                   \* ScanSpec: the calls of the transaction examined
    scanned,              \* ScanSpec: what getSentMessageEvents returned
    lookedUp,             \* ScanSpec: what getSentMessageFromTx returned
    inFlight,             \* hashes whose relayL1Message call has not settled
    response,             \* RouteSpec: the response served since the last step
    scanResult,           \* MarkSpec: the result of the destination scan applied
    hashed,               \* HashSpec: the evaluations made so far
    everFailed,           \* RetrySpec: hashes logged by 'Failed to relay message'
    everRelayed,          \* OnceSpec: hashes seen with status Relayed
    messengerBalance,     \* destination balance of L1_MESSENGER_ADDRESS_ALIAS
    bridgeEvents,         \* MonSpec: the ERC20 bridge events of the two chains
    bridgeVolume          \* MonSpec: the erc20 series of metrics.bridgeVolume

vars == <<pc, messageQueue, lastScannedL1Block, lastScannedL2Block, metrics,
          relayIdx, l1StartBlock, l1Log, failures, step,
          attempts, pendingAtRelay, tx, scanned, lookedUp, inFlight, response,
          scanResult, hashed, everFailed, everRelayed, messengerBalance,
          bridgeEvents, bridgeVolume>>

\* What only OnceSpec and MonSpec change
Aside == <<everRelayed, bridgeEvents, bridgeVolume>>

\* Nothing recorded and no bridge monitor running
AsideIdle ==
    /\ everRelayed = {}
    /\ bridgeEvents = <<>>
    /\ bridgeVolume = <<>>

\* ------------------------------------------------------------ pure helpers
RECURSIVE ToDecimal(_)
\* BigNumber.toString(): the decimal digits of n
ToDecimal(n) == IF n < 10 THEN <<n>> ELSE Append(ToDecimal(n \div 10), n % 10)

RECURSIVE FromDecimal(_)
\* BigNumber.from(string): the number a string of decimal digits denotes
FromDecimal(s) ==
    IF s = <<>> THEN 0
    ELSE 10 * FromDecimal(SubSeq(s, 1, Len(s) - 1)) + s[Len(s)]

\* encodeFunctionData("relayMessage", [...]): selector and ABI words
EncodeCrossDomainMessageV1(nonce, sender, target, value, gasLimit, data) ==
    <<"relayMessage", nonce, sender, target, value, gasLimit, data>>

\* A hash that also depends on how many evaluations were made before
HashCountingCalls(nonce, sender, target, value, gasLimit, data) ==
    <<"keccak256",
      EncodeCrossDomainMessageV1(nonce, sender, target, value, gasLimit, data),
      Len(hashed)>>

\* keccak256 of the encoding; injective, so the digest is the encoding tagged
HashCrossDomainMessageV1(nonce, sender, target, value, gasLimit, data) ==
    <<"keccak256",
      EncodeCrossDomainMessageV1(nonce, sender, target, value, gasLimit, data)>>

\* queryFilter(SentMessage, from, to): the SentMessage logs of a log, in
\* block order then log order
RECURSIVE SentLogsOfTx(_, _, _)
SentLogsOfTx(calls, b, i) ==
    IF i > Len(calls) THEN <<>>
    ELSE <<[transactionHash |-> TxHashOf(b), blockNumber |-> b,
            sender |-> calls[i].sender, target |-> TargetAddr,
            message |-> Payload, messageNonce |-> calls[i].nonce,
            gasLimit |-> calls[i].gasLimit]>> \o SentLogsOfTx(calls, b, i + 1)

RECURSIVE ExtLogsOfTx(_, _, _)
ExtLogsOfTx(calls, b, i) ==
    IF i > Len(calls) THEN <<>>
    ELSE (IF calls[i].ext.present
          THEN <<[transactionHash |-> TxHashOf(b), blockNumber |-> b,
                  sender |-> calls[i].ext.sender,
                  value |-> calls[i].ext.value]>>
          ELSE <<>>) \o ExtLogsOfTx(calls, b, i + 1)

RECURSIVE QuerySentMessage(_, _, _)
QuerySentMessage(log, from, to) ==
    IF from > to THEN <<>>
    ELSE (IF from \in DOMAIN log THEN SentLogsOfTx(log[from], from, 1) ELSE <<>>)
         \o QuerySentMessage(log, from + 1, to)

RECURSIVE QueryExtension(_, _, _)
QueryExtension(log, from, to) ==
    IF from > to THEN <<>>
    ELSE (IF from \in DOMAIN log THEN ExtLogsOfTx(log[from], from, 1) ELSE <<>>)
         \o QueryExtension(log, from + 1, to)

\* Array.prototype.find: index of the first extension log of a transaction,
\* 0 when there is none
FindExtension(extensionEvents, txHash) ==
    LET hits == {j \in 1..Len(extensionEvents) :
                    extensionEvents[j].transactionHash = txHash}
    IN  IF hits = {} THEN 0 ELSE CHOOSE j \in hits : \A k \in hits : j <= k

\* getSentMessageEvents without its sender check
SenderMismatchNoCheck(event, extensionEvents) == FALSE

\* The sender check of getSentMessageEvents for one SentMessage log
SenderMismatch(event, extensionEvents) ==
    LET j == FindExtension(extensionEvents, event.transactionHash)
    IN  j # 0 /\ extensionEvents[j].sender # event.sender

\* A record built without looking at the extension event
SentMessageRecordZeroValue(event, extensionEvents) ==
    [messageHash |-> HashCrossDomainMessageV1(event.messageNonce,
                         event.sender, event.target, 0,
                         event.gasLimit, event.message),
     sender |-> event.sender,
     target |-> event.target,
     message |-> event.message,
     messageNonce |-> ToDecimal(event.messageNonce),
     gasLimit |-> event.gasLimit,
     value |-> 0,
     blockNumber |-> event.blockNumber,
     transactionHash |-> event.transactionHash]

\* The record getSentMessageEvents builds for one SentMessage log
SentMessageRecord(event, extensionEvents) ==
    LET j == FindExtension(extensionEvents, event.transactionHash)
        value == IF j # 0 THEN extensionEvents[j].value ELSE 0
    IN  [messageHash |-> HashCrossDomainMessageV1(event.messageNonce,
                             event.sender, event.target, value,
                             event.gasLimit, event.message),
         sender |-> event.sender,
         target |-> event.target,
         message |-> event.message,
         messageNonce |-> ToDecimal(event.messageNonce),
         gasLimit |-> event.gasLimit,
         value |-> value,
         blockNumber |-> event.blockNumber,
         transactionHash |-> event.transactionHash]

\* A pairing that drops the SentMessage logs with a sender mismatch and
\* returns the others
PairSentMessagesSkipBad(sentMessageEvents, extensionEvents) ==
    LET good == SelectSeq(sentMessageEvents,
                    LAMBDA ev : ~SenderMismatch(ev, extensionEvents))
    IN  [err |-> FALSE,
         msgs |-> [i \in 1..Len(good) |->
                      SentMessageRecord(good[i], extensionEvents)]]

\* getSentMessageEvents on the two log streams of a range: err when the
\* Promise.all rejects with a sender mismatch, else the records in log order
PairSentMessages(sentMessageEvents, extensionEvents) ==
    IF \E i \in 1..Len(sentMessageEvents) :
            SenderMismatch(sentMessageEvents[i], extensionEvents)
    THEN [err |-> TRUE, msgs |-> <<>>]
    ELSE [err |-> FALSE,
          msgs |-> [i \in 1..Len(sentMessageEvents) |->
                       SentMessageRecord(sentMessageEvents[i], extensionEvents)]]

GetSentMessageEvents(log, fromBlock, toBlock) ==
    PairSentMessages(QuerySentMessage(log, fromBlock, toBlock),
                     QueryExtension(log, fromBlock, toBlock))

\* provider.getTransactionReceipt(txHash).logs: the logs of one transaction
\* in emission order, each call's SentMessage before its extension
RECURSIVE ReceiptLogs(_, _, _)
ReceiptLogs(calls, b, i) ==
    IF i > Len(calls) THEN <<>>
    ELSE <<[name |-> "SentMessage",
            args |-> [sender |-> calls[i].sender, target |-> TargetAddr,
                      message |-> Payload, messageNonce |-> calls[i].nonce,
                      gasLimit |-> calls[i].gasLimit]]>>
         \o (IF calls[i].ext.present
             THEN <<[name |-> "SentMessageExtension1",
                     args |-> [sender |-> calls[i].ext.sender,
                               value |-> calls[i].ext.value]]>>
             ELSE <<>>)
         \o ReceiptLogs(calls, b, i + 1)

\* Array.prototype.find by event name: index of the first such log, or 0
FindByName(events, name) ==
    LET hits == {j \in 1..Len(events) : events[j].name = name}
    IN  IF hits = {} THEN 0 ELSE CHOOSE j \in hits : \A k \in hits : j <= k

\* getSentMessageFromTx on the parsed logs of the receipt: null without a
\* SentMessage log, else the record built from the first SentMessage and the
\* first SentMessageExtension1 log
GetSentMessageFromTx(sentMessageEvents) ==
    LET s == FindByName(sentMessageEvents, "SentMessage")
        e == FindByName(sentMessageEvents, "SentMessageExtension1")
    IN  IF s = 0
        THEN [called |-> TRUE, null |-> TRUE]
        ELSE [called |-> TRUE, null |-> FALSE,
              target |-> sentMessageEvents[s].args.target,
              sender |-> sentMessageEvents[s].args.sender,
              message |-> sentMessageEvents[s].args.message,
              messageNonce |-> ToDecimal(sentMessageEvents[s].args.messageNonce),
              gasLimit |-> sentMessageEvents[s].args.gasLimit,
              value |-> IF e # 0 THEN sentMessageEvents[e].args.value ELSE 0]

\* ------------------------------------------------------------ the store
IndexOfHash(q, h) ==
    LET hits == {i \in 1..Len(q) : q[i].messageHash = h}
    IN  IF hits = {} THEN 0 ELSE CHOOSE i \in hits : TRUE

HasHash(q, h) == IndexOfHash(q, h) # 0

\* The entry indexHistoricalMessages / indexNewMessages write for a record
QueueEntry(msg) ==
    [messageHash |-> msg.messageHash, sender |-> msg.sender,
     target |-> msg.target, message |-> msg.message,
     messageNonce |-> msg.messageNonce, gasLimit |-> msg.gasLimit,
     value |-> msg.value, blockNumber |-> msg.blockNumber,
     transactionHash |-> msg.transactionHash,
     timestamp |-> BlockTimestamp(msg.blockNumber),
     isRelayed |-> FALSE]

\* A set that forgets the other keys
MapSetOnly(q, entry) == <<entry>>

\* A set that appends whether or not the key is present
MapSetAppend(q, entry) == Append(q, entry)

\* Map.prototype.set: replaces the value of a present key in place, appends
\* a new key at the end of the iteration order
MapSet(q, entry) ==
    LET i == IndexOfHash(q, entry.messageHash)
    IN  IF i = 0 THEN Append(q, entry) ELSE [q EXCEPT ![i] = entry]

\* The first k iterations of the insertion loop
RECURSIVE InsertMessages(_, _, _)
InsertMessages(q, msgs, k) ==
    IF k = 0 THEN q
    ELSE MapSet(InsertMessages(q, msgs, k - 1), QueueEntry(msgs[k]))

PendingHashes(q) ==
    LET idx == {i \in 1..Len(q) : ~q[i].isRelayed}
    IN  {q[i].messageHash : i \in idx}

RelayedHashes(q) ==
    LET idx == {i \in 1..Len(q) : q[i].isRelayed}
    IN  {q[i].messageHash : i \in idx}

QueueHashes(q) == {q[i].messageHash : i \in 1..Len(q)}

\* A count of every entry of the store
PendingCountSize(q) == Len(q)

\* updateMetrics: the entries with !isRelayed
PendingCount(q) == Cardinality({i \in 1..Len(q) : ~q[i].isRelayed})

\* Hashes of every message the source log can give rise to: what a
\* destination scan can report
ConfirmableHashes ==
    {HashCrossDomainMessageV1(n, SenderA, TargetAddr, v, g, Payload) :
        n \in MsgNonces, v \in {0} \cup ExtValues, g \in GasLimits}

RECURSIVE SeqsUpTo(_, _)
SeqsUpTo(S, n) ==
    IF n = 0 THEN {<<>>}
    ELSE LET shorter == SeqsUpTo(S, n - 1)
         IN  shorter \cup {Append(s, x) : s \in shorter, x \in S}

\* getRelayedMessageEvents: the msgHash of each RelayedMessage log of the range
RelayedScanResults == SeqsUpTo(ConfirmableHashes, MaxConfirm)

\* One iteration of the marking loop of indexHistoricalMessages
MarkHistorical(st, hash) ==
    LET i == IndexOfHash(st.q, hash)
    IN  IF i # 0
        THEN [q |-> [st.q EXCEPT ![i].isRelayed = TRUE],
              m |-> [st.m EXCEPT !.messagesRelayed = @ + 1]]
        ELSE st

RECURSIVE MarkAllHistorical(_, _, _)
MarkAllHistorical(st, hashes, k) ==
    IF k = 0 THEN st
    ELSE MarkHistorical(MarkAllHistorical(st, hashes, k - 1), hashes[k])

\* A marking loop that stores a record for a hash it does not find
MarkRelayedOrCreate(st, hash) ==
    LET i == IndexOfHash(st.q, hash)
    IN  IF i = 0
        THEN [q |-> Append(st.q, [messageHash |-> hash, isRelayed |-> TRUE]),
              m |-> [st.m EXCEPT !.messagesRelayed = @ + 1]]
        ELSE IF ~st.q[i].isRelayed
        THEN [q |-> [st.q EXCEPT ![i].isRelayed = TRUE],
              m |-> [st.m EXCEPT !.messagesRelayed = @ + 1,
                                 !.pendingMessages = @ - 1]]
        ELSE st

\* One iteration of the marking loop of checkRelayedMessages
MarkRelayed(st, hash) ==
    LET i == IndexOfHash(st.q, hash)
    IN  IF i # 0 /\ ~st.q[i].isRelayed
        THEN [q |-> [st.q EXCEPT ![i].isRelayed = TRUE],
              m |-> [st.m EXCEPT !.messagesRelayed = @ + 1,
                                 !.pendingMessages = @ - 1]]
        ELSE st

RECURSIVE MarkAllRelayed(_, _, _)
MarkAllRelayed(st, hashes, k) ==
    IF k = 0 THEN st
    ELSE MarkRelayed(MarkAllRelayed(st, hashes, k - 1), hashes[k])

\* The hashes of the pending entries, in Map iteration order
RECURSIVE PendingSeq(_)
PendingSeq(q) ==
    IF q = <<>> THEN <<>>
    ELSE (IF Head(q).isRelayed THEN <<>> ELSE <<Head(q).messageHash>>)
         \o PendingSeq(Tail(q))

\* A loop that ends at its first entry
NextPendingNone(q, i) == Len(q) + 1

\* The next entry at or after position i that the loop of
\* relayPendingMessages does not pass over (Len + 1 when there is none)
RECURSIVE NextPending(_, _)
NextPending(q, i) ==
    IF i > Len(q) \/ ~q[i].isRelayed THEN i ELSE NextPending(q, i + 1)

\* ------------------------------------------------------------ the relay
\* What the destination chain does with one relay submission:
\*   success    the transaction is included and succeeds
\*   sendError  eth_sendTransaction (or tenderly_setBalance) is rejected
\*   noReceipt  getTransactionReceipt returns null
\*   reverted   the transaction is included with receipt.status = 0
RelayOutcomes == {"success", "sendError", "noReceipt", "reverted"}
RelayFailures == RelayOutcomes \ {"success"}

\* ethers.BigNumber.from(1).shl(240).or(nonce)
VersionedNonce(nonce) ==
    IF (nonce \div VersionBit) % 2 = 1 THEN nonce ELSE nonce + VersionBit

\* relayL1Message: threw when the call rejects, else the receipt is returned;
\* call is the argument tuple of the relayMessage transaction
RelayL1Message(message, outcome) ==
    [threw |-> outcome \in {"sendError", "noReceipt"},
     call |-> <<VersionedNonce(FromDecimal(message.messageNonce)),
                message.sender, message.target, message.value,
                message.gasLimit, message.message>>]

\* relayL1Message: setBalance(L1_MESSENGER_ADDRESS_ALIAS, value) before a
\* message with a value is sent; a call that rejects did so at setBalance or
\* after it
BalancesAfterRelay(balance, value, outcome) ==
    IF value = 0 THEN {balance}
    ELSE IF outcome = "sendError" THEN {balance, value}
    ELSE {value}

\* ---------------------------------------------------------------- Init
NotCalled == [called |-> FALSE]

\* No request was served since the last step of the service
NoResponse == [route |-> "none"]

StepRec(op, head, err) == [op |-> op, head |-> head, err |-> err]

\* The state init() builds before it calls indexHistoricalMessages
Constructed ==
    /\ pc = "init"
    /\ messageQueue = <<>>
    /\ l1StartBlock \in {0, MaxStart}
    /\ lastScannedL1Block = l1StartBlock
    \* options.l2StartBlock, which nothing reads after start-up
    /\ lastScannedL2Block \in {0, MaxStart}
    /\ metrics = [messagesSent |-> 0, messagesRelayed |-> 0,
                  pendingMessages |-> 0, nodeConnectionFailures |-> 0]
    /\ relayIdx = 1
    /\ l1Log \in [Blocks -> BlockContents]
    /\ failures = 0
    /\ step = StepRec("none", 0, FALSE)
    /\ attempts = <<>>
    /\ pendingAtRelay = <<>>
    /\ tx = <<>>
    /\ scanned = NotCalled
    /\ lookedUp = NotCalled
    /\ inFlight = {}
    /\ response = NoResponse
    /\ scanResult = <<>>
    /\ hashed = <<>>
    /\ everFailed = {}
    /\ AsideIdle

\* The value of a message that carries one
RelayValue == CHOOSE v \in ExtValues : TRUE

\* The relay sender holds the value of the message last relayed with a value
Init ==
    /\ Constructed
    /\ messengerBalance = RelayValue

\* What no step of the service changes
Settings == <<l1StartBlock, l1Log, tx, scanned, lookedUp, scanResult, hashed,
             everFailed, Aside>>
Config == <<Settings, messengerBalance>>

\* ------------------------------------------------------------- start-up
\* init() throws out of indexHistoricalMessages: the service does not start
Crash(q, m, l1, head, failed) ==
    /\ pc' = "crashed"
    /\ messageQueue' = q
    /\ metrics' = m
    /\ lastScannedL1Block' = l1
    /\ failures' = failures + failed
    /\ step' = StepRec("historical", head, TRUE)
    /\ response' = NoResponse
    /\ UNCHANGED <<inFlight, lastScannedL2Block, relayIdx, attempts, pendingAtRelay,
                   Config>>

\* init() from line 151 on: indexHistoricalMessages
IndexHistoricalMessages ==
    /\ pc = "init"
    /\ \E latestL1Block \in Heights, latestL2Block \in Heights :
         LET sent == GetSentMessageEvents(l1Log, l1StartBlock, latestL1Block)
             n == Len(sent.msgs)
             inserted(k) == InsertMessages(messageQueue, sent.msgs, k)
             counted(k) == [metrics EXCEPT !.messagesSent = @ + k]
         IN  \/ \* getBlockNumber or the L1 getLogs rejects
                /\ Crash(messageQueue, metrics, lastScannedL1Block,
                         latestL1Block, 0)
             \/ \* getSentMessageEvents rejects with a sender mismatch
                /\ sent.err
                /\ Crash(messageQueue, metrics, lastScannedL1Block,
                         latestL1Block, 0)
             \/ \* getBlock rejects for message k + 1
                /\ ~sent.err
                /\ \E k \in 0..(n - 1) :
                     Crash(inserted(k), counted(k), lastScannedL1Block,
                           latestL1Block, 0)
             \/ \* the L2 getLogs rejects
                /\ ~sent.err
                /\ Crash(inserted(n), counted(n), latestL1Block,
                         latestL1Block, 0)
             \/ \* no read fails
                /\ ~sent.err
                /\ \E relayedHashes \in RelayedScanResults :
                     LET st == MarkAllHistorical(
                                   [q |-> inserted(n), m |-> counted(n)],
                                   relayedHashes, Len(relayedHashes))
                     IN  /\ messageQueue' = st.q
                         /\ metrics' = st.m
                /\ lastScannedL1Block' = latestL1Block
                /\ lastScannedL2Block' = latestL2Block
                /\ step' = StepRec("historical", latestL1Block, FALSE)
                /\ pc' = "index"
                /\ response' = NoResponse
                /\ UNCHANGED <<inFlight, relayIdx, attempts, pendingAtRelay, failures,
                               Config>>

\* ------------------------------------------------------------ the cycle
\* A failed cycle that moves the source cursor to the head it read
AbortAdvancing(op, q, m, head, failed) ==
    /\ pc' = "index"
    /\ messageQueue' = q
    /\ metrics' = m
    /\ failures' = failures + failed
    /\ step' = StepRec(op, head, TRUE)
    /\ attempts' = <<>>
    /\ pendingAtRelay' = <<>>
    /\ response' = NoResponse
    /\ lastScannedL1Block' =
           IF op = "index" /\ head > lastScannedL1Block
           THEN head ELSE lastScannedL1Block
    /\ UNCHANGED <<inFlight, lastScannedL2Block, relayIdx, Config>>

\* main() rejects: the service loop logs the error and calls main() again
Abort(op, q, m, head, failed) ==
    /\ pc' = "index"
    /\ messageQueue' = q
    /\ metrics' = m
    /\ failures' = failures + failed
    /\ step' = StepRec(op, head, TRUE)
    /\ attempts' = <<>>
    /\ pendingAtRelay' = <<>>
    /\ response' = NoResponse
    /\ UNCHANGED <<inFlight, lastScannedL1Block, lastScannedL2Block, relayIdx, Config>>

\* A range that starts at the cursor itself
ScanFromCursor(cursor) == cursor

\* A range that starts two blocks after the cursor
ScanFromSkipping(cursor) == cursor + 2

\* The first block of the range indexNewMessages / checkRelayedMessages scan
ScanFrom(cursor) == cursor + 1

\* The cursor assigned outside the if
AdvanceCursorAlways(cursor, latestBlock) == latestBlock

\* The cursor never assigned
AdvanceCursorNever(cursor, latestBlock) == cursor

\* The cursor after the if of indexNewMessages / checkRelayedMessages
AdvanceCursor(cursor, latestBlock) ==
    IF latestBlock > cursor THEN latestBlock ELSE cursor

IndexNewMessages ==
    /\ pc = "index"
    /\ \/ \* getBlockNumber rejects
          /\ Abort("index", messageQueue, metrics, lastScannedL1Block, 0)
       \/ \E latestL1Block \in Heights :
            /\ latestL1Block > lastScannedL1Block
            /\ LET sent == GetSentMessageEvents(l1Log, ScanFrom(lastScannedL1Block),
                                                latestL1Block)
                   n == Len(sent.msgs)
                   inserted(k) == InsertMessages(messageQueue, sent.msgs, k)
                   counted(k) == [metrics EXCEPT !.messagesSent = @ + k]
               IN  \/ \* the L1 getLogs rejects
                      /\ Abort("index", messageQueue, metrics, latestL1Block, 0)
                   \/ \* getSentMessageEvents rejects with a sender mismatch
                      /\ sent.err
                      /\ Abort("index", messageQueue, metrics, latestL1Block, 0)
                   \/ \* getBlock rejects for message k + 1
                      /\ ~sent.err
                      /\ \E k \in 0..(n - 1) :
                           /\ k > 0 => failures < MaxFailures
                           /\ Abort("index", inserted(k), counted(k),
                                    latestL1Block, IF k > 0 THEN 1 ELSE 0)
                   \/ \* no read fails
                      /\ ~sent.err
                      /\ messageQueue' = inserted(n)
                      /\ metrics' = counted(n)
                      /\ lastScannedL1Block' =
                             AdvanceCursor(lastScannedL1Block, latestL1Block)
                      /\ step' = StepRec("index", latestL1Block, FALSE)
                      /\ pc' = "confirm"
                      /\ response' = NoResponse
                      /\ UNCHANGED <<inFlight, lastScannedL2Block, relayIdx, attempts,
                                     pendingAtRelay, failures, Config>>
       \/ \E latestL1Block \in Heights :
            \* 'No new messages found'
            /\ latestL1Block <= lastScannedL1Block
            /\ lastScannedL1Block' =
                   AdvanceCursor(lastScannedL1Block, latestL1Block)
            /\ step' = StepRec("index", latestL1Block, FALSE)
            /\ pc' = "confirm"
            /\ response' = NoResponse
            /\ UNCHANGED <<inFlight, messageQueue, metrics, lastScannedL2Block, relayIdx,
                           attempts, pendingAtRelay, failures, Config>>

CheckRelayedMessages ==
    /\ pc = "confirm"
    /\ \/ \* getBlockNumber rejects
          /\ Abort("confirm", messageQueue, metrics, lastScannedL2Block, 0)
       \/ \E latestL2Block \in Heights :
            /\ latestL2Block > lastScannedL2Block
            /\ \/ \* the L2 getLogs rejects
                  /\ Abort("confirm", messageQueue, metrics, latestL2Block, 0)
               \/ \E st \in {MarkAllRelayed(
                                  [q |-> messageQueue, m |-> metrics],
                                  newRelayedHashes, Len(newRelayedHashes)) :
                              newRelayedHashes \in RelayedScanResults} :
                        /\ messageQueue' = st.q
                        /\ metrics' = st.m
                        /\ lastScannedL2Block' =
                               AdvanceCursor(lastScannedL2Block, latestL2Block)
                        /\ step' = StepRec("confirm", latestL2Block, FALSE)
                        /\ pendingAtRelay' = PendingSeq(st.q)
                        /\ relayIdx' = NextPending(st.q, 1)
                        /\ attempts' = <<>>
                        /\ pc' = "relay"
                        /\ response' = NoResponse
                        /\ UNCHANGED <<inFlight, lastScannedL1Block, failures, Config>>
       \/ \E latestL2Block \in Heights :
            \* 'No new relayed messages found'
            /\ latestL2Block <= lastScannedL2Block
            /\ lastScannedL2Block' =
                   AdvanceCursor(lastScannedL2Block, latestL2Block)
            /\ step' = StepRec("confirm", latestL2Block, FALSE)
            /\ pendingAtRelay' = PendingSeq(messageQueue)
            /\ relayIdx' = NextPending(messageQueue, 1)
            /\ attempts' = <<>>
            /\ pc' = "relay"
            /\ response' = NoResponse
            /\ UNCHANGED <<inFlight, messageQueue, metrics, lastScannedL1Block, failures,
                           Config>>

\* A relay attempt that updates the gauges and forgets the entry
AfterRelayGaugesOnly(st, i, outcome) ==
    IF RelayL1Message(st.q[i], outcome).threw
    THEN st
    ELSE [q |-> st.q,
          m |-> [st.m EXCEPT !.messagesRelayed = @ + 1,
                             !.pendingMessages = @ - 1]]

\* The entry and gauges after one relay attempt of relayPendingMessages
\* A relay whose return is not recorded
AfterRelayForgets(st, i, outcome) == st

AfterRelay(st, i, outcome) ==
    IF RelayL1Message(st.q[i], outcome).threw
    THEN st
    ELSE [q |-> [st.q EXCEPT ![i].isRelayed = TRUE],
          m |-> [st.m EXCEPT !.messagesRelayed = @ + 1,
                             !.pendingMessages = @ - 1]]

\* relayPendingMessages called without awaiting relayL1Message: the loop
\* goes on to the next entry while the call is pending
RelaySubmitNoAwait ==
    /\ pc = "relay"
    /\ relayIdx <= Len(messageQueue)
    /\ inFlight' = inFlight \cup {messageQueue[relayIdx].messageHash}
    /\ relayIdx' = NextPending(messageQueue, relayIdx + 1)
    /\ step' = StepRec("submit", 0, FALSE)
    /\ response' = NoResponse
    /\ UNCHANGED <<pc, messageQueue, metrics, lastScannedL1Block,
                   lastScannedL2Block, attempts, pendingAtRelay, failures,
                   Config>>

\* The loop of relayPendingMessages reaches a pending entry and calls
\* relayL1Message; the await suspends the loop until the call settles
RelaySubmit ==
    /\ pc = "relay"
    /\ relayIdx <= Len(messageQueue)
    /\ inFlight' = inFlight \cup {messageQueue[relayIdx].messageHash}
    /\ pc' = "relaying"
    /\ step' = StepRec("submit", 0, FALSE)
    /\ response' = NoResponse
    /\ UNCHANGED <<messageQueue, metrics, lastScannedL1Block,
                   lastScannedL2Block, relayIdx, attempts, pendingAtRelay,
                   failures, Config>>

\* The relayL1Message call settles and the loop goes on to the next pending
\* entry
RelayPendingMessage ==
    /\ pc = "relaying"
    /\ \E outcome \in RelayOutcomes :
         LET st == AfterRelay([q |-> messageQueue, m |-> metrics], relayIdx,
                              outcome)
         IN  /\ messageQueue' = st.q
             /\ metrics' = st.m
             /\ attempts' = Append(attempts,
                                   [hash |-> messageQueue[relayIdx].messageHash,
                                    outcome |-> outcome])
             /\ relayIdx' = NextPending(st.q, relayIdx + 1)
             /\ messengerBalance' \in
                    BalancesAfterRelay(messengerBalance,
                                       messageQueue[relayIdx].value, outcome)
    /\ inFlight' = inFlight \ {messageQueue[relayIdx].messageHash}
    /\ pc' = "relay"
    /\ step' = StepRec("relay", 0, FALSE)
    /\ response' = NoResponse
    /\ UNCHANGED <<lastScannedL1Block, lastScannedL2Block, pendingAtRelay,
                   failures, Settings>>

\* A main() that goes from the relays straight to its sleep
RelayPendingDoneSkipMetrics ==
    /\ pc = "relay"
    /\ relayIdx > Len(messageQueue)
    /\ pc' = "sleep"
    /\ relayIdx' = 1
    /\ step' = StepRec("relayed", 0, FALSE)
    /\ response' = NoResponse
    /\ UNCHANGED <<inFlight, messageQueue, metrics, lastScannedL1Block,
                   lastScannedL2Block, attempts, pendingAtRelay, failures,
                   Config>>

\* The iterator is exhausted: relayPendingMessages returns
RelayPendingDone ==
    /\ pc = "relay"
    /\ relayIdx > Len(messageQueue)
    /\ pc' = "metrics"
    /\ relayIdx' = 1
    /\ step' = StepRec("relayed", 0, FALSE)
    /\ response' = NoResponse
    /\ UNCHANGED <<inFlight, messageQueue, metrics, lastScannedL1Block,
                   lastScannedL2Block, attempts, pendingAtRelay, failures,
                   Config>>

UpdateMetrics ==
    /\ pc = "metrics"
    /\ metrics' = [metrics EXCEPT !.pendingMessages = PendingCount(messageQueue)]
    /\ pc' = "sleep"
    /\ step' = StepRec("metrics", 0, FALSE)
    /\ response' = NoResponse
    /\ UNCHANGED <<inFlight, messageQueue, lastScannedL1Block, lastScannedL2Block,
                   relayIdx, attempts, pendingAtRelay, failures, Config>>

\* The sleep of main() ends and the service loop calls main() again
Sleep ==
    /\ pc = "sleep"
    /\ pc' = "index"
    /\ attempts' = <<>>
    /\ pendingAtRelay' = <<>>
    /\ step' = StepRec("sleep", 0, FALSE)
    /\ response' = NoResponse
    /\ UNCHANGED <<inFlight, messageQueue, metrics, lastScannedL1Block,
                   lastScannedL2Block, relayIdx, failures, Config>>

Next ==
    \/ IndexHistoricalMessages
    \/ IndexNewMessages
    \/ CheckRelayedMessages
    \/ RelaySubmit
    \/ RelayPendingMessage
    \/ RelayPendingDone
    \/ UpdateMetrics
    \/ Sleep

Spec == Init /\ [][Next]_vars

\* ---------------------------------------------------------------- ScanSpec
\* The two pairing operations of optimism.ts applied to the logs of one
\* transaction of up to MaxCalls sendMessage calls.
MaxCalls == 2

ScanNonces == {VersionBit + 1, VersionBit + 2}
ScanValues == {1, 2}
ScanCalls == [nonce : ScanNonces, sender : Senders, gasLimit : GasLimits,
              ext : {NoExt} \cup
                    [present : {TRUE}, sender : Senders, value : ScanValues]]
Transactions == SeqsUpTo(ScanCalls, MaxCalls)

InitScan ==
    /\ pc = "scan"
    /\ messageQueue = <<>>
    /\ l1StartBlock = 0
    /\ lastScannedL1Block = 0
    /\ lastScannedL2Block = 0
    /\ metrics = [messagesSent |-> 0, messagesRelayed |-> 0,
                  pendingMessages |-> 0, nodeConnectionFailures |-> 0]
    /\ relayIdx = 1
    /\ l1Log = [b \in Blocks |-> <<>>]
    /\ failures = 0
    /\ step = StepRec("none", 0, FALSE)
    /\ attempts = <<>>
    /\ pendingAtRelay = <<>>
    /\ tx \in Transactions
    /\ scanned = NotCalled
    /\ lookedUp = NotCalled
    /\ inFlight = {}
    /\ response = NoResponse
    /\ scanResult = <<>>
    /\ hashed = <<>>
    /\ everFailed = {}
    /\ AsideIdle
    /\ messengerBalance = RelayValue

ServiceVars == <<pc, messageQueue, lastScannedL1Block, lastScannedL2Block,
                 metrics, relayIdx, l1StartBlock, l1Log, failures, step,
                 attempts, pendingAtRelay, inFlight, response, scanResult,
                 hashed, everFailed, Aside,
                 messengerBalance>>

\* A scan that moves the source cursor past the block it read
ScanTransactionAdvancing ==
    /\ pc = "scan"
    /\ ~scanned.called
    /\ LET res == PairSentMessages(SentLogsOfTx(tx, 1, 1), ExtLogsOfTx(tx, 1, 1))
       IN  scanned' = [called |-> TRUE, err |-> res.err, msgs |-> res.msgs]
    /\ lastScannedL1Block' = lastScannedL1Block + 1
    /\ UNCHANGED <<pc, messageQueue, lastScannedL2Block, metrics, relayIdx,
                   l1StartBlock, l1Log, failures, step, attempts,
                   pendingAtRelay, inFlight, response, scanResult, hashed,
                   everFailed, Aside, messengerBalance, tx, lookedUp>>

\* getSentMessageEvents over a range that holds the transaction (block 1)
ScanTransaction ==
    /\ pc = "scan"
    /\ ~scanned.called
    /\ LET res == PairSentMessages(SentLogsOfTx(tx, 1, 1), ExtLogsOfTx(tx, 1, 1))
       IN  scanned' = [called |-> TRUE, err |-> res.err, msgs |-> res.msgs]
    /\ UNCHANGED <<ServiceVars, tx, lookedUp>>

\* getSentMessageFromTx on the receipt of the transaction
LookupTransaction ==
    /\ pc = "scan"
    /\ ~lookedUp.called
    /\ lookedUp' = GetSentMessageFromTx(ReceiptLogs(tx, 1, 1))
    /\ UNCHANGED <<ServiceVars, tx, scanned>>

NextScan == ScanTransaction \/ LookupTransaction

ScanSpec == InitScan /\ [][NextScan]_vars

\* --------------------------------------------------------------- RouteSpec
\* The service with its two HTTP routes served between the steps of the loop.
LoopPcs == {"index", "confirm", "relay", "relaying", "metrics", "sleep"}

\* GET /healthz
Healthz(q) ==
    [route |-> "healthz", status |-> 200,
     body |-> [ok |-> TRUE, synced |-> TRUE, pendingMessages |-> Len(q)]]

\* GET /messages: Array.from(messageQueue.values())
Messages(q) ==
    [route |-> "messages", status |-> 200, body |-> [messages |-> q]]

\* What serving a request leaves alone
Served == <<pc, messageQueue, lastScannedL1Block, lastScannedL2Block, metrics,
            relayIdx, failures, step, attempts, pendingAtRelay, inFlight,
            Config>>

\* A /messages handler that empties the store it dumps
ServeMessagesDraining ==
    /\ pc \in LoopPcs
    /\ response' = Messages(messageQueue)
    /\ messageQueue' = <<>>
    /\ relayIdx' = 1
    /\ UNCHANGED <<pc, lastScannedL1Block, lastScannedL2Block, metrics,
                   failures, step, attempts, pendingAtRelay, inFlight, Config>>

ServeHealthz ==
    /\ pc \in LoopPcs
    /\ response' = Healthz(messageQueue)
    /\ UNCHANGED Served

ServeMessages ==
    /\ pc \in LoopPcs
    /\ response' = Messages(messageQueue)
    /\ UNCHANGED Served

\* A busy source chain: every block holds one send, with msg.value in the
\* even blocks and without in the odd ones
RouteLog ==
    [b \in Blocks |->
        <<[nonce |-> CHOOSE n \in MsgNonces : TRUE, sender |-> SenderA,
           gasLimit |-> CHOOSE g \in GasLimits : TRUE,
           ext |-> IF b % 2 = 0
                   THEN [present |-> TRUE, sender |-> SenderA,
                         value |-> CHOOSE v \in ExtValues : TRUE]
                   ELSE NoExt]>>]

\* Both start blocks at their default, on the busy source chain
InitRoutes ==
    /\ Init
    /\ l1StartBlock = 0
    /\ lastScannedL2Block = 0
    /\ l1Log = RouteLog

NextRoutes == Next \/ ServeHealthz \/ ServeMessages

RouteSpec == InitRoutes /\ [][NextRoutes]_vars

\* ---------------------------------------------------------------- MarkSpec
\* The two marking loops applied to a store and the result of one destination
\* scan.
\* A stored message with the given msg.value, sent in block 1
MarkEntry(value, relayed) ==
    LET call == [nonce |-> CHOOSE n \in MsgNonces : TRUE, sender |-> SenderA,
                 gasLimit |-> CHOOSE g \in GasLimits : TRUE,
                 ext |-> IF value = 0 THEN NoExt
                         ELSE [present |-> TRUE, sender |-> SenderA,
                               value |-> value]]
        rec == SentMessageRecord(SentLogsOfTx(<<call>>, 1, 1)[1],
                                 ExtLogsOfTx(<<call>>, 1, 1))
    IN  [QueueEntry(rec) EXCEPT !.isRelayed = relayed]

MarkEntries == {MarkEntry(v, r) : v \in {0} \cup ExtValues, r \in BOOLEAN}

\* Stores of messages with distinct hashes
MarkStores ==
    {q \in SeqsUpTo(MarkEntries, Cardinality(ConfirmableHashes)) :
        \A i, j \in 1..Len(q) : q[i].messageHash = q[j].messageHash => i = j}

InitMark ==
    /\ pc = "mark"
    /\ messageQueue \in MarkStores
    /\ scanResult \in RelayedScanResults
    /\ \E gauge \in {0, PendingCount(messageQueue)} :
         metrics = [messagesSent |-> Len(messageQueue),
                    messagesRelayed |-> Cardinality(RelayedHashes(messageQueue)),
                    pendingMessages |-> gauge,
                    nodeConnectionFailures |-> 0]
    /\ l1StartBlock = 0
    /\ lastScannedL1Block = 1
    /\ lastScannedL2Block = 0
    /\ relayIdx = 1
    /\ l1Log = [b \in Blocks |-> <<>>]
    /\ failures = 0
    /\ step = StepRec("none", 0, FALSE)
    /\ attempts = <<>>
    /\ pendingAtRelay = <<>>
    /\ tx = <<>>
    /\ scanned = NotCalled
    /\ lookedUp = NotCalled
    /\ inFlight = {}
    /\ response = NoResponse
    /\ hashed = <<>>
    /\ everFailed = {}
    /\ AsideIdle
    /\ messengerBalance = RelayValue

MarkFrame == <<lastScannedL1Block, lastScannedL2Block, relayIdx, l1StartBlock,
               l1Log, failures, step, attempts, pendingAtRelay, tx, scanned,
               lookedUp, inFlight, response, scanResult, hashed, everFailed, Aside,
                 messengerBalance>>

\* The marking loop of checkRelayedMessages on the scan result
ApplyCheckRelayed ==
    /\ pc = "mark"
    /\ LET st == MarkAllRelayed([q |-> messageQueue, m |-> metrics],
                                scanResult, Len(scanResult))
       IN  /\ messageQueue' = st.q
           /\ metrics' = st.m
    /\ pc' = "checked"
    /\ UNCHANGED MarkFrame

\* The marking loop of indexHistoricalMessages on the scan result; the store
\* was filled by the insertion loop just before, so nothing in it is Relayed
ApplyHistorical ==
    /\ pc = "mark"
    /\ RelayedHashes(messageQueue) = {}
    /\ metrics.pendingMessages = 0
    /\ LET st == MarkAllHistorical([q |-> messageQueue, m |-> metrics],
                                   scanResult, Len(scanResult))
       IN  /\ messageQueue' = st.q
           /\ metrics' = st.m
    /\ pc' = "marked"
    /\ UNCHANGED MarkFrame

NextMark == ApplyCheckRelayed \/ ApplyHistorical

MarkSpec == InitMark /\ [][NextMark]_vars

\* ---------------------------------------------------------------- HashSpec
\* hashCrossDomainMessageV1 evaluated by several process instances, and the
\* hash a message is stored under next to the hash of the tuple relayed.
MaxEvaluations == 2

\* A nonce without the version bit and one with it
HashNonces == {1, VersionBit + 1}
HashInputs ==
    [nonce : HashNonces, sender : Senders, target : {TargetAddr},
     value : {0} \cup ExtValues, gasLimit : GasLimits, data : {Payload}]
Instances == {1, 2}

InitHash ==
    /\ pc = "hash"
    /\ messageQueue = <<>>
    /\ l1StartBlock = 0
    /\ lastScannedL1Block = 0
    /\ lastScannedL2Block = 0
    /\ metrics = [messagesSent |-> 0, messagesRelayed |-> 0,
                  pendingMessages |-> 0, nodeConnectionFailures |-> 0]
    /\ relayIdx = 1
    /\ l1Log = [b \in Blocks |-> <<>>]
    /\ failures = 0
    /\ step = StepRec("none", 0, FALSE)
    /\ attempts = <<>>
    /\ pendingAtRelay = <<>>
    /\ tx = <<>>
    /\ scanned = NotCalled
    /\ lookedUp = NotCalled
    /\ inFlight = {}
    /\ response = NoResponse
    /\ scanResult = <<>>
    /\ hashed = <<>>
    /\ everFailed = {}
    /\ AsideIdle
    /\ messengerBalance = RelayValue

HashFrame == <<pc, messageQueue, lastScannedL1Block, lastScannedL2Block,
               metrics, relayIdx, l1StartBlock, l1Log, failures, step,
               attempts, pendingAtRelay, tx, scanned, lookedUp, inFlight,
               response, scanResult, everFailed, Aside, messengerBalance>>

\* One call of hashCrossDomainMessageV1 in one process instance
EvaluateHash ==
    /\ pc = "hash"
    /\ Len(hashed) < MaxEvaluations
    /\ \E p \in Instances, in \in HashInputs :
         hashed' = Append(hashed,
             [op |-> "hash", instance |-> p, input |-> in,
              hash |-> HashCrossDomainMessageV1(in.nonce, in.sender, in.target,
                                                in.value, in.gasLimit, in.data)])
    /\ UNCHANGED HashFrame

\* A send event is indexed (getSentMessageEvents, the insertion loop) and its
\* message relayed (relayL1Message): the hash it is stored under and the hash
\* of the tuple passed to relayMessage
IndexThenRelay ==
    /\ pc = "hash"
    /\ Len(hashed) < MaxEvaluations
    /\ \E nonce \in HashNonces, value \in {0} \cup ExtValues :
         LET call == [nonce |-> nonce, sender |-> SenderA,
                      gasLimit |-> CHOOSE g \in GasLimits : TRUE,
                      ext |-> IF value = 0 THEN NoExt
                              ELSE [present |-> TRUE, sender |-> SenderA,
                                    value |-> value]]
             entry == QueueEntry(SentMessageRecord(
                          SentLogsOfTx(<<call>>, 1, 1)[1],
                          ExtLogsOfTx(<<call>>, 1, 1)))
             sent == RelayL1Message(entry, "success").call
         IN  hashed' = Append(hashed,
                 [op |-> "relay", nonce |-> nonce,
                  stored |-> entry.messageHash,
                  submitted |-> HashCrossDomainMessageV1(sent[1], sent[2],
                                    sent[3], sent[4], sent[5], sent[6])])
    /\ UNCHANGED HashFrame

NextHash == EvaluateHash \/ IndexThenRelay

HashSpec == InitHash /\ [][NextHash]_vars

\* --------------------------------------------------------------- RetrySpec
\* The service on the busy source chain, with the hashes remembered for which
\* relayPendingMessages logged a failed relay.
InitRetry ==
    /\ Init
    /\ l1StartBlock = 0
    /\ lastScannedL2Block = 0
    /\ l1Log = RouteLog

\* The catch of relayPendingMessages: 'Failed to relay message <hash>'
LogRelayFailure ==
    /\ pc = "relay"
    /\ step.op = "relay"
    /\ attempts # <<>>
    /\ attempts[Len(attempts)].outcome \in {"sendError", "noReceipt"}
    /\ attempts[Len(attempts)].hash \notin everFailed
    /\ everFailed' = everFailed \cup {attempts[Len(attempts)].hash}
    /\ UNCHANGED <<pc, messageQueue, lastScannedL1Block, lastScannedL2Block,
                   metrics, relayIdx, l1StartBlock, l1Log, failures, step,
                   attempts, pendingAtRelay, tx, scanned, lookedUp, inFlight,
                   response, scanResult, hashed, Aside, messengerBalance>>

NextRetry == Next \/ LogRelayFailure

RetrySpec == InitRetry /\ [][NextRetry]_vars

\* ------------------------------------------------------------- IndexerSpec
\* getSentMessageEvents and getRelayedMessageEvents called while the service
\* holds a store and two cursors.
InitIndexer ==
    /\ pc = "scan"
    /\ messageQueue \in MarkStores
    /\ l1StartBlock = 0
    /\ lastScannedL1Block \in Heights
    /\ lastScannedL2Block \in Heights
    /\ metrics = [messagesSent |-> Len(messageQueue),
                  messagesRelayed |-> Cardinality(RelayedHashes(messageQueue)),
                  pendingMessages |-> PendingCount(messageQueue),
                  nodeConnectionFailures |-> 0]
    /\ relayIdx = 1
    /\ l1Log = [b \in Blocks |-> <<>>]
    /\ failures = 0
    /\ step = StepRec("none", 0, FALSE)
    /\ attempts = <<>>
    /\ pendingAtRelay = <<>>
    /\ tx \in SeqsUpTo(ScanCalls, 1)
    /\ scanned = NotCalled
    /\ lookedUp = NotCalled
    /\ inFlight = {}
    /\ response = NoResponse
    /\ scanResult = <<>>
    /\ hashed = <<>>
    /\ everFailed = {}
    /\ AsideIdle
    /\ messengerBalance = RelayValue

\* getRelayedMessageEvents returns the msgHash of the RelayedMessage logs of
\* a range (when it rejects, nothing is returned)
ScanRelayedMessages ==
    /\ pc = "scan"
    /\ scanResult = <<>>
    /\ scanResult' \in RelayedScanResults
    /\ UNCHANGED <<pc, messageQueue, lastScannedL1Block, lastScannedL2Block,
                   metrics, relayIdx, l1StartBlock, l1Log, failures, step,
                   attempts, pendingAtRelay, tx, scanned, lookedUp, inFlight,
                   response, hashed, everFailed, Aside,
                 messengerBalance>>

NextIndexer == ScanTransaction \/ ScanRelayedMessages

IndexerSpec == InitIndexer /\ [][NextIndexer]_vars

\* ---------------------------------------------------------------- OnceSpec
\* The service, with the hashes remembered that the store has held with
\* status Relayed.
\* The store holds a record with isRelayed = true: its hash is remembered
RecordRelayed ==
    /\ \E h \in RelayedHashes(messageQueue) \ everRelayed :
         everRelayed' = everRelayed \cup {h}
    /\ UNCHANGED <<pc, messageQueue, lastScannedL1Block, lastScannedL2Block,
                   metrics, relayIdx, l1StartBlock, l1Log, failures, step,
                   attempts, pendingAtRelay, tx, scanned, lookedUp, inFlight,
                   response, scanResult, hashed, everFailed, bridgeEvents,
                   bridgeVolume, messengerBalance>>

NextOnce == Next \/ RecordRelayed

OnceSpec == Init /\ [][NextOnce]_vars

\* ---------------------------------------------------------------- FundSpec
\* The service on the busy source chain, started with any balance of the
\* relay sender.
\* options.minimumMessengerBalance and options.targetMessengerBalance, in
\* units of the value of a message
MinimumMessengerBalance == 2
TargetMessengerBalance == 3
Balances == 0..TargetMessengerBalance

InitFund ==
    /\ Constructed
    /\ l1StartBlock = 0
    /\ lastScannedL2Block = 0
    /\ l1Log = RouteLog
    /\ messengerBalance \in Balances

FundSpec == InitFund /\ [][Next]_vars

\* ----------------------------------------------------------------- MonSpec
\* The bridge monitor (mon/service.ts): init -> indexHistoricalEvents, then
\* main = checkNewEvents -> sleep, on the ERC20 bridge events of two chains.
Tokens == {"0xT1", "0xT2"}
Amounts == {1, 2}
Directions == {"l1-to-l2", "l2-finalized"}
BridgeEvents == [localToken : Tokens, amount : Amounts]
\* A block holds at most one ERC20 bridge event
BridgeBlocks == {<<>>} \cup {<<e>> : e \in BridgeEvents}
MonStarts == {0, 1}

\* parseInt(event.amount.toString(), 10)
ParseAmount(amount) == FromDecimal(ToDecimal(amount))

RECURSIVE GetERC20BridgeEvents(_, _, _)
\* getERC20BridgeInitiatedEvents / getERC20BridgeFinalizedEvents(from, to):
\* the events of the blocks from..to, in block order
GetERC20BridgeEvents(log, from, to) ==
    IF from > to THEN <<>>
    ELSE GetERC20BridgeEvents(log, from, to - 1) \o
         (IF to \in DOMAIN log THEN log[to] ELSE <<>>)

RECURSIVE SetVolumes(_, _)
\* indexHistoricalEvents: bridgeVolume.set(labels of the token, amount) for
\* each event in turn
SetVolumes(series, events) ==
    IF events = <<>> THEN series
    ELSE SetVolumes([series EXCEPT ![events[1].localToken] =
                         ParseAmount(events[1].amount)],
                    Tail(events))

RECURSIVE IncVolumes(_, _)
\* checkNewEvents: bridgeVolume.inc(labels of the token, amount) for each
\* event in turn
IncVolumes(series, events) ==
    IF events = <<>> THEN series
    ELSE IncVolumes([series EXCEPT ![events[1].localToken] =
                         @ + ParseAmount(events[1].amount)],
                    Tail(events))

InitMon ==
    /\ pc = "mon_init"
    /\ messageQueue = <<>>
    /\ l1StartBlock \in MonStarts
    /\ lastScannedL1Block = l1StartBlock
    \* options.l2StartBlock
    /\ lastScannedL2Block = 0
    /\ metrics = [messagesSent |-> 0, messagesRelayed |-> 0,
                  pendingMessages |-> 0, nodeConnectionFailures |-> 0]
    /\ relayIdx = 1
    /\ l1Log = [b \in Blocks |-> <<>>]
    /\ failures = 0
    /\ step = StepRec("none", 0, FALSE)
    /\ attempts = <<>>
    /\ pendingAtRelay = <<>>
    /\ tx = <<>>
    /\ scanned = NotCalled
    /\ lookedUp = NotCalled
    /\ inFlight = {}
    /\ response = NoResponse
    /\ scanResult = <<>>
    /\ hashed = <<>>
    /\ everFailed = {}
    /\ everRelayed = {}
    /\ messengerBalance = RelayValue
    /\ bridgeEvents \in [Directions -> [Blocks -> BridgeBlocks]]
    /\ bridgeVolume = [d \in Directions |-> [t \in Tokens |-> 0]]

MonFrame == <<messageQueue, metrics, relayIdx, l1StartBlock, l1Log, attempts,
              pendingAtRelay, tx, scanned, lookedUp, inFlight, response,
              scanResult, hashed, everFailed, everRelayed, messengerBalance,
              bridgeEvents>>

\* indexHistoricalEvents: a read that rejects makes init throw; else the
\* events of [cursor, head] of each chain are applied with set and the
\* cursors move to the heads
IndexHistoricalEvents ==
    /\ pc = "mon_init"
    /\ \E latestL1Block, latestL2Block \in Heights, ok \in BOOLEAN :
         IF ~ok
         THEN /\ pc' = "crashed"
              /\ step' = StepRec("historical", latestL1Block, TRUE)
              /\ UNCHANGED <<lastScannedL1Block, lastScannedL2Block,
                             bridgeVolume, failures>>
         ELSE LET l1Erc20Events ==
                      GetERC20BridgeEvents(bridgeEvents["l1-to-l2"],
                                           lastScannedL1Block, latestL1Block)
                  l2Erc20Events ==
                      GetERC20BridgeEvents(bridgeEvents["l2-finalized"],
                                           lastScannedL2Block, latestL2Block)
              IN  /\ bridgeVolume' =
                        [bridgeVolume EXCEPT
                            !["l1-to-l2"] = SetVolumes(@, l1Erc20Events),
                            !["l2-finalized"] = SetVolumes(@, l2Erc20Events)]
                  /\ lastScannedL1Block' = latestL1Block
                  /\ lastScannedL2Block' = latestL2Block
                  /\ pc' = "mon_check"
                  /\ step' = StepRec("historical", latestL1Block, FALSE)
                  /\ UNCHANGED failures
    /\ UNCHANGED MonFrame

\* checkNewEvents: the source part, then the destination part, each under
\* its head > cursor test; a read that rejects is caught, counted, and ends
\* the call with what was applied before it
CheckNewEvents ==
    /\ pc = "mon_check"
    /\ \E latestL1Block, latestL2Block \in Heights,
          rejects \in {"none", "heads", "l1", "l2"} :
         LET l1Done == rejects \in {"none", "l2"}
                       /\ latestL1Block > lastScannedL1Block
             l2Done == rejects = "none" /\ latestL2Block > lastScannedL2Block
             newL1Erc20Events ==
                 GetERC20BridgeEvents(bridgeEvents["l1-to-l2"],
                                      lastScannedL1Block + 1, latestL1Block)
             newL2Erc20Events ==
                 GetERC20BridgeEvents(bridgeEvents["l2-finalized"],
                                      lastScannedL2Block + 1, latestL2Block)
         IN  /\ rejects = "l1" => latestL1Block > lastScannedL1Block
             /\ rejects = "l2" => latestL2Block > lastScannedL2Block
             /\ rejects # "none" => failures < MaxFailures
             /\ bridgeVolume' =
                   [bridgeVolume EXCEPT
                       !["l1-to-l2"] =
                           IF l1Done THEN IncVolumes(@, newL1Erc20Events) ELSE @,
                       !["l2-finalized"] =
                           IF l2Done THEN IncVolumes(@, newL2Erc20Events) ELSE @]
             /\ lastScannedL1Block' =
                   IF l1Done THEN latestL1Block ELSE lastScannedL1Block
             /\ lastScannedL2Block' =
                   IF l2Done THEN latestL2Block ELSE lastScannedL2Block
             /\ failures' = IF rejects = "none" THEN failures ELSE failures + 1
             /\ step' = StepRec("check", latestL1Block, rejects # "none")
    /\ pc' = "mon_sleep"
    /\ UNCHANGED MonFrame

\* main: the sleep after checkNewEvents
MonSleep ==
    /\ pc = "mon_sleep"
    /\ pc' = "mon_check"
    /\ step' = StepRec("sleep", 0, FALSE)
    /\ UNCHANGED <<lastScannedL1Block, lastScannedL2Block, bridgeVolume,
                   failures, MonFrame>>

NextMon == IndexHistoricalEvents \/ CheckNewEvents \/ MonSleep

MonSpec == InitMon /\ [][NextMon]_vars

\* ---------------------------------------------------------------- LiveSpec
\* The service under its loop: BaseServiceV2 (loop: true) calls main again
\* whenever it has returned or thrown, and every await of main settles.
\* A send event without a secondary event
PlainCall ==
    [nonce |-> CHOOSE n \in MsgNonces : TRUE, sender |-> SenderA,
     gasLimit |-> CHOOSE g \in GasLimits : TRUE, ext |-> NoExt]

\* A send event whose secondary event names another sender
MismatchCall ==
    [PlainCall EXCEPT !.ext = [present |-> TRUE, sender |-> SenderB,
                               value |-> RelayValue]]

\* Three source chains: the busy one, one with the same send event in every
\* block, and the busy one with a sender mismatch in its last block
LiveLogs ==
    {RouteLog,
     [b \in Blocks |-> <<PlainCall>>],
     [RouteLog EXCEPT ![MaxBlock] = <<MismatchCall>>]}

InitLive ==
    /\ Init
    /\ lastScannedL2Block = 0
    /\ l1Log \in LiveLogs

LiveSpec == InitLive /\ [][Next]_vars /\ WF_vars(Next)

\* ------------------------------------------------------------------ claims
IsRelayed(q, h) == h \in RelayedHashes(q)
IsPending(q, h) == h \in PendingHashes(q)
Max(a, b) == IF a >= b THEN a ELSE b
AttemptedHashes == [k \in 1..Len(attempts) |-> attempts[k].hash]

\* An inserting step keeps Relayed what was Relayed.
C1_Step ==
    pc \in {"init", "index"} =>
        \A h \in RelayedHashes(messageQueue) : IsRelayed(messageQueue', h)

\* C1: once a hash is Relayed in the store, no insertion of a send event with
\* that hash (start-up indexing or the Indexing step of a cycle, for any
\* contents of the logs) makes it Pending again.
C1_InsertKeepsRelayed == [][C1_Step]_vars

\* Every record of the store is still there, unchanged, after an Indexing step.
C2_Step ==
    pc = "index" =>
        \A i \in 1..Len(messageQueue) :
            \E j \in 1..Len(messageQueue') : messageQueue'[j] = messageQueue[i]

\* C2: inserting a send event whose hash is already in the store is a no-op:
\* the Indexing step leaves the existing record exactly as it was (status,
\* block number, transaction hash, timestamp and message fields).
C2_InsertLeavesExistingRecord == [][C2_Step]_vars

\* C3: after a relay attempt whose outcome is a failure (rejected submission,
\* missing receipt, reverted transaction) the message is still Pending.
C3_FailedRelayStaysPending ==
    (step.op = "relay" /\ attempts[Len(attempts)].outcome \in RelayFailures)
        => IsPending(messageQueue, attempts[Len(attempts)].hash)

\* C4: at the end of a Relaying step in which the relay of A failed and the
\* relay of B succeeded (in either store order), B is Relayed, A is Pending,
\* and every message pending when the step began was attempted exactly once.
C4_RelayFailuresIsolated ==
    pc = "metrics" =>
        \A a, b \in 1..Len(attempts) :
            (attempts[a].outcome \in RelayFailures
                /\ attempts[b].outcome = "success") =>
               /\ IsRelayed(messageQueue, attempts[b].hash)
               /\ IsPending(messageQueue, attempts[a].hash)
               /\ AttemptedHashes = pendingAtRelay

\* C5: at the end of a cycle in which no chain read failed and every relay
\* attempt succeeded, no message of the store is Pending: those pending at
\* the start and those indexed during the cycle are all Relayed.
C5_CleanCycleRelaysAll ==
    (pc = "sleep" /\ \A k \in 1..Len(attempts) : attempts[k].outcome = "success")
        => PendingHashes(messageQueue) = {}

\* A cycle ended after two relay attempts that both succeeded.
C5_Witness ==
    /\ pc = "sleep"
    /\ Len(attempts) >= 2
    /\ \A k \in 1..Len(attempts) : attempts[k].outcome = "success"
    /\ PendingHashes(messageQueue) = {}

\* No step after start-up lowers a cursor.
C6_Step ==
    pc # "init" =>
        /\ lastScannedL1Block' >= lastScannedL1Block
        /\ lastScannedL2Block' >= lastScannedL2Block

\* C6: no step of a poll cycle, completed or aborted, lowers either cursor,
\* whatever block height the chain reports; so each cursor at the end of a
\* cycle is at least what it was at the start.
C6_CycleCursorsMonotone == [][C6_Step]_vars

\* A cycle was told a head below the cursor and kept the cursor.
C6_Witness ==
    \/ step.op = "index" /\ ~step.err /\ step.head < lastScannedL1Block
    \/ step.op = "confirm" /\ ~step.err /\ step.head < lastScannedL2Block

\* No step at all lowers a cursor.
C7_Step ==
    /\ lastScannedL1Block' >= lastScannedL1Block
    /\ lastScannedL2Block' >= lastScannedL2Block

\* C7: over the process lifetime, start-up indexing included, neither cursor
\* ever holds a value lower than one it held before (also when the configured
\* start block is above the head reported at start-up).
C7_LifetimeCursorsMonotone == [][C7_Step]_vars

\* C8 (as stated): after an Indexing / Confirming step that queried head H
\* and raised no error, the cursor of that chain equals H.
C8_CursorEqualsQueriedHead ==
    /\ (step.op = "index" /\ ~step.err) => lastScannedL1Block = step.head
    /\ (step.op = "confirm" /\ ~step.err) => lastScannedL2Block = step.head

\* The cursor after a step without error is the larger of the cursor before
\* the step and the head the step queried.
C8_Step ==
    /\ (pc = "index" /\ step'.op = "index" /\ ~step'.err) =>
          lastScannedL1Block' = Max(lastScannedL1Block, step'.head)
    /\ (pc = "confirm" /\ step'.op = "confirm" /\ ~step'.err) =>
          lastScannedL2Block' = Max(lastScannedL2Block, step'.head)

\* C8 (amended): after an Indexing / Confirming step that queried head H and
\* raised no error, the cursor equals H when H is not below the cursor the
\* step started with, and is unchanged otherwise; events found or not.
C8_CursorReachesQueriedHead == [][C8_Step]_vars

\* An Indexing step advanced the cursor to the head it queried over a range
\* without any send event.
C8_Witness ==
    /\ step.op = "index" /\ ~step.err
    /\ step.head > l1StartBlock
    /\ lastScannedL1Block = step.head
    /\ messageQueue = <<>>
    /\ \A b \in Blocks : b <= step.head => l1Log[b] = <<>>

\* A transaction of the source log in blocks from..to has a SentMessage whose
\* extension event names another sender.
RangeHasMismatch(log, from, to) ==
    \E b \in Blocks :
        /\ from <= b /\ b <= to
        /\ \E i \in 1..Len(log[b]) :
             log[b][i].ext.present /\ log[b][i].ext.sender # log[b][i].sender

\* An Indexing step over a range with a sender mismatch raises and leaves the
\* store alone.
C9_Step ==
    (pc = "index" /\ step'.op = "index"
        /\ RangeHasMismatch(l1Log, lastScannedL1Block + 1, step'.head)) =>
       /\ step'.err
       /\ pc' = "index"
       /\ messageQueue' = messageQueue
       /\ \A i \in 1..Len(messageQueue') :
            ~RangeHasMismatch(l1Log, messageQueue'[i].blockNumber,
                              messageQueue'[i].blockNumber)

FirstExtCall(calls) ==
    calls[CHOOSE i \in 1..Len(calls) :
              calls[i].ext.present /\ \A j \in 1..(i - 1) : ~calls[j].ext.present]
HasExt(calls) == \E i \in 1..Len(calls) : calls[i].ext.present

\* C10: neither getSentMessageEvents nor getSentMessageFromTx returns a
\* message record for a SentMessage that it pairs with an extension event of
\* a different sender.
C10_NoRecordWhenSendersDiffer ==
    /\ (scanned.called /\ HasExt(tx)
          /\ \E i \in 1..Len(tx) : tx[i].sender # FirstExtCall(tx).ext.sender)
         => scanned.err
    /\ (lookedUp.called /\ HasExt(tx)
          /\ tx[1].sender # FirstExtCall(tx).ext.sender)
         => lookedUp.null

\* The value and identity hash the scan must give the message of one call
ExpectedValue(call) == IF call.ext.present THEN call.ext.value ELSE 0
ExpectedHash(call) ==
    HashCrossDomainMessageV1(call.nonce, call.sender, TargetAddr,
                             ExpectedValue(call), call.gasLimit, Payload)

\* The store holds the message of the call, with the value of its extension
\* event (zero without one) and the hash over that value
StoredAsSent(q, call, pendingOnly) ==
    \E j \in 1..Len(q) :
        /\ q[j].messageHash = ExpectedHash(call)
        /\ q[j].value = ExpectedValue(call)
        /\ pendingOnly => ~q[j].isRelayed

\* Every send event of the range scanned by a successful source scan is in
\* the store as StoredAsSent says; Pending after an Indexing step
C11_Step ==
    /\ (pc = "index" /\ step'.op = "index" /\ ~step'.err) =>
          \A b \in Blocks :
             (lastScannedL1Block + 1 <= b /\ b <= step'.head) =>
                 \A i \in 1..Len(l1Log[b]) :
                     StoredAsSent(messageQueue', l1Log[b][i], TRUE)
    /\ (pc = "init" /\ step'.op = "historical" /\ ~step'.err) =>
          \A b \in Blocks :
             (l1StartBlock <= b /\ b <= step'.head) =>
                 \A i \in 1..Len(l1Log[b]) :
                     StoredAsSent(messageQueue', l1Log[b][i], FALSE)

\* C11: for every SentMessage returned by a source scan, the message has
\* value zero when its transaction has no extension event in the range and
\* the value of the extension event when there is one with the same sender;
\* the identity hash is computed over that value, and the Indexing step
\* stores the message Pending.
C11_ValueDefaultsToZero == [][C11_Step]_vars

\* An Indexing step stored the message of its head block with the value of
\* its extension event, next to a message without extension event.
C11_Witness ==
    /\ step.op = "index" /\ ~step.err
    /\ \E i, j \in 1..Len(messageQueue) :
         /\ messageQueue[i].value = 0
         /\ messageQueue[j].value \in ExtValues
         /\ messageQueue[j].blockNumber = step.head
         /\ ~messageQueue[j].isRelayed

\* Applying a scan result keeps the hashes of the store and its size.
C12_Step ==
    /\ QueueHashes(messageQueue') = QueueHashes(messageQueue)
    /\ Len(messageQueue') = Len(messageQueue)

\* C12: a destination confirmation for a hash that is not in the store never
\* creates a record: the marking loop of checkRelayedMessages and that of
\* indexHistoricalMessages leave the set of stored hashes as it was, whatever
\* hashes the scan returned.
C12_ConfirmationCreatesNoRecord == [][C12_Step]_vars

\* A scan result with a hash the store does not hold has been applied.
C12_Witness ==
    /\ pc \in {"checked", "marked"}
    /\ \E k \in 1..Len(scanResult) : scanResult[k] \notin QueueHashes(messageQueue)
    /\ messageQueue # <<>>

\* The hashes of a scan result, and how many records of a set of hashes a
\* store holds
ScanHashes(hashes) == {hashes[k] : k \in 1..Len(hashes)}
EntryOf(q, h) == q[IndexOfHash(q, h)]

\* The effect of applying a scan result, as the rule per returned hash gives
\* it: Pending becomes Relayed and is counted once, Relayed stays as it is
C13_Step ==
    LET hit == ScanHashes(scanResult) \cap QueueHashes(messageQueue)
        turned == hit \cap PendingHashes(messageQueue)
    IN  pc' \in {"checked", "marked"} =>
           /\ \A h \in turned : IsRelayed(messageQueue', h)
           /\ \A h \in hit \ turned :
                  EntryOf(messageQueue', h) = EntryOf(messageQueue, h)
           /\ Cardinality(PendingHashes(messageQueue')) =
                  Cardinality(PendingHashes(messageQueue)) - Cardinality(turned)
           /\ metrics'.messagesRelayed =
                  metrics.messagesRelayed + Cardinality(turned)

\* C13: when a destination scan returns a stored hash h: if h is Pending it
\* becomes Relayed and the pending count drops by exactly one; if h is
\* already Relayed nothing changes (status, relayed counter, pending count),
\* also when h appears several times in the scan result.
C13_MarkRelayedOncePerHash == [][C13_Step]_vars

\* A failed read in Indexing or Confirming ends the cycle and keeps both
\* cursors, so the next cycle's scan starts at the same block.
C14_Step ==
    (pc \in {"index", "confirm"} /\ step'.err) =>
       /\ pc' = "index"
       /\ lastScannedL1Block' = lastScannedL1Block
       /\ lastScannedL2Block' = lastScannedL2Block

\* C14: if a chain read fails during Indexing or Confirming (block height,
\* logs or a block's timestamp), the cycle aborts without advancing the
\* cursor of the affected chain, and the next cycle scans a range that starts
\* at the same first block (cursor + 1) as the failed one.
C14_FailedReadKeepsCursor == [][C14_Step]_vars

\* An Indexing step failed after it had read a head above the cursor and
\* inserted part of the batch; the cursor is still below that head.
C14_Witness ==
    /\ pc = "index"
    /\ step.op = "index" /\ step.err
    /\ step.head > lastScannedL1Block
    /\ failures > 0

\* A failed read adds one to the nodeConnectionFailures gauge.
C15_Step ==
    (pc \in {"index", "confirm"} /\ step'.err) =>
        metrics'.nodeConnectionFailures = metrics.nodeConnectionFailures + 1

\* C15: every transient read failure of the relayer (RPC error while indexing
\* or while fetching a block height) increments the node-connection failure
\* counter.
C15_ReadFailureCounted == [][C15_Step]_vars

\* C16: at the end of every cycle that reaches the metrics step, the
\* pendingMessages gauge equals the number of Pending records of the store.
C16_GaugeEqualsPending ==
    pc = "sleep" =>
        metrics.pendingMessages = Cardinality(PendingHashes(messageQueue))

\* The metrics step ran on a store holding Pending and Relayed records.
C16_Witness ==
    /\ pc = "sleep"
    /\ PendingHashes(messageQueue) # {}
    /\ RelayedHashes(messageQueue) # {}
    /\ metrics.pendingMessages = Cardinality(PendingHashes(messageQueue))

\* C17: the pendingMessages field of a /healthz response equals the number
\* of Pending records of the store.
C17_HealthzReportsPending ==
    response.route = "healthz" =>
        response.body.pendingMessages = Cardinality(PendingHashes(messageQueue))

\* Serving a request changes nothing of the service, and /healthz can be
\* served, with status 200 and ok, wherever the loop is.
C18_Step ==
    /\ response'.route # "none" =>
          /\ messageQueue' = messageQueue
          /\ lastScannedL1Block' = lastScannedL1Block
          /\ lastScannedL2Block' = lastScannedL2Block
          /\ metrics' = metrics
          /\ pc' = pc
    /\ response'.route = "healthz" =>
          /\ response'.status = 200
          /\ response'.body.ok
    /\ pc \in LoopPcs => ENABLED ServeHealthz

\* C18: serving /healthz or /messages, at any point interleaved with a
\* cycle, leaves the store, both cursors and all metrics unchanged, and
\* /healthz answers success in every state of the loop, whatever the backlog
\* and the failures so far.
C18_RoutesReadOnly == [][C18_Step]_vars

\* /healthz was served while a relay was in flight, with a backlog and after
\* a failed cycle.
C18_Witness ==
    /\ response.route = "healthz"
    /\ response.status = 200
    /\ pc = "relaying"
    /\ failures > 0
    /\ PendingHashes(messageQueue) # {}

\* At most one relay call is pending, a call starts only when none is, the
\* store keeps the position of every hash and appends new ones, and the
\* attempts follow the pending entries in store order.
C19_Step ==
    /\ Cardinality(inFlight') <= 1
    /\ (inFlight' # inFlight /\ inFlight' # {}) => inFlight = {}
    /\ Len(messageQueue') >= Len(messageQueue)
    /\ \A i \in 1..Len(messageQueue) :
          messageQueue'[i].messageHash = messageQueue[i].messageHash
    /\ \A k \in 1..Len(attempts') :
          /\ k <= Len(pendingAtRelay')
          /\ attempts'[k].hash = pendingAtRelay'[k]

\* C19: relay submissions are serialised: at most one relay transaction of
\* the relayer is in flight at any moment, and within a cycle the pending
\* messages are attempted in the store's iteration order, which is the order
\* in which their hashes were first inserted.
C19_RelaysSerialisedInOrder == [][C19_Step]_vars

\* The second relay of a cycle is in flight after the first has settled.
C19_Witness ==
    /\ pc = "relaying"
    /\ Len(attempts) = 1
    /\ Len(pendingAtRelay) >= 2
    /\ inFlight = {pendingAtRelay[2]}

\* The order of the steps of main()
CycleOrder ==
    {<<"index", "confirm">>, <<"confirm", "relay">>, <<"relay", "relaying">>,
     <<"relaying", "relay">>, <<"relay", "metrics">>, <<"metrics", "sleep">>,
     <<"sleep", "index">>}

\* Every step of the loop is one of CycleOrder.
C20_Step ==
    pc \in LoopPcs => <<pc, pc'>> \in CycleOrder

\* C20 (as stated): the steps of the loop follow one another in the order
\* Indexing, Confirming, Relaying, metrics update, sleep, and Indexing begins
\* only after the sleep of the previous cycle has ended.
C20_StepsInCycleOrder == [][C20_Step]_vars

\* Every step of the loop is one of CycleOrder, or ends the cycle in its
\* Indexing or Confirming step on a failed read.
C20_AmendedStep ==
    pc \in LoopPcs =>
        \/ ~step'.err /\ <<pc, pc'>> \in CycleOrder
        \/ step'.err /\ pc \in {"index", "confirm"} /\ pc' = "index"

\* C20 (amended): the steps of a cycle happen in the order Indexing,
\* Confirming, Relaying, metrics update, sleep; a cycle ends when its sleep
\* ends or when a read of its Indexing or Confirming step fails, and the
\* Indexing step of the next cycle begins only after that: cycles do not
\* overlap.
C20_CyclesInOrderOrAborted == [][C20_AmendedStep]_vars

\* A cycle was aborted in its Confirming step and the next is about to begin.
C20_Witness ==
    /\ pc = "index"
    /\ step.op = "confirm" /\ step.err

C22_StoredHashIsRelayedHash ==
    \A i \in 1..Len(hashed) :
        hashed[i].op = "relay" => hashed[i].stored = hashed[i].submitted

\* The set of hashes attempted in the current Relaying step
AttemptedSet == {attempts[k].hash : k \in 1..Len(attempts)}

\* C23: a message whose relay failed is attempted again in every later cycle
\* that reaches the Relaying step while it is Pending: at the end of the
\* step, every message that was Pending when it began, and so every message
\* still Pending, was attempted in it.
C23_PendingAlwaysRetried ==
    pc = "metrics" =>
        /\ \A h \in everFailed :
              h \in ScanHashes(pendingAtRelay) => h \in AttemptedSet
        /\ PendingHashes(messageQueue) \subseteq AttemptedSet

\* The relay of a message is in flight whose failure was logged in an
\* earlier cycle.
C23_Witness ==
    /\ pc = "relaying"
    /\ inFlight # {}
    /\ inFlight \subseteq everFailed

\* A record becomes Relayed only at start-up or in the Confirming step (a
\* confirmation scan) or when the relay call for it returns, and a Relayed
\* record stays Relayed.
C24_Step ==
    /\ \A h \in RelayedHashes(messageQueue') \ RelayedHashes(messageQueue) :
          \/ pc \in {"init", "confirm"}
          \/ /\ pc = "relaying"
             /\ attempts'[Len(attempts')].hash = h
             /\ attempts'[Len(attempts')].outcome \notin {"sendError", "noReceipt"}
    /\ \A h \in RelayedHashes(messageQueue) : IsRelayed(messageQueue', h)
    /\ \A h \in PendingHashes(messageQueue) : h \in QueueHashes(messageQueue')

\* C24: a record's status is Relayed only if a destination confirmation scan
\* returned its hash or a relay submission for it returned without error,
\* and every record changes status at most once (Pending to Relayed, never
\* back).
C24_RelayedOnceAndForCause == [][C24_Step]_vars

\* Every hash of the store is still in the store after the step, and the
\* store has not shrunk.
C25_Step ==
    \/ messageQueue' = messageQueue
    \/ /\ QueueHashes(messageQueue) \subseteq QueueHashes(messageQueue')
       /\ Len(messageQueue') >= Len(messageQueue)

\* C25: the store is append-only: the set of its hashes only grows; no
\* operation of start-up or of any cycle removes a record.
C25_StoreAppendOnly == [][C25_Step]_vars

\* An Indexing step added a record to a store that held one already.
C25_Witness ==
    /\ step.op = "index" /\ ~step.err
    /\ Len(messageQueue) >= 2
    /\ messageQueue[1].blockNumber < step.head
    /\ messageQueue[Len(messageQueue)].blockNumber = step.head

\* C26: the store holds exactly one record per distinct hash: indexing a
\* range twice, or two send events with identical fields, yields one record;
\* the number of records is the number of distinct hashes indexed.
C26_OneRecordPerHash ==
    /\ Len(messageQueue) = Cardinality(QueueHashes(messageQueue))
    /\ \A i, j \in 1..Len(messageQueue) :
          messageQueue[i].messageHash = messageQueue[j].messageHash => i = j
    /\ pc \in LoopPcs =>
          QueueHashes(messageQueue) \subseteq
              UNION {{ExpectedHash(l1Log[b][i]) : i \in 1..Len(l1Log[b])} :
                        b \in Blocks}

\* More send events were inserted than the store holds records: a hash was
\* indexed twice.
C26_Witness ==
    /\ pc \in LoopPcs
    /\ Len(messageQueue) >= 1
    /\ metrics.messagesSent > Len(messageQueue)

\* A call of an indexer operation leaves the store and both cursors alone.
C27_Step ==
    /\ messageQueue' = messageQueue
    /\ lastScannedL1Block' = lastScannedL1Block
    /\ lastScannedL2Block' = lastScannedL2Block

\* C27: getSentMessageEvents and getRelayedMessageEvents do not change the
\* message store or either cursor, whether they return a result or raise.
C27_IndexerReadOnly == [][C27_Step]_vars

\* The source scan raised and the destination scan returned hashes, over a
\* store that holds records.
C27_Witness ==
    /\ scanned.called /\ scanned.err
    /\ scanResult # <<>>
    /\ messageQueue # <<>>

\* The call of a block is well-formed: no extension event of another sender
WellFormed(call) == ~call.ext.present \/ call.ext.sender = call.sender

\* An Indexing step over a range with a sender mismatch adds no well-formed
\* message of that range, counts none, and keeps the source cursor.
C28_Step ==
    (pc = "index" /\ step'.op = "index"
        /\ RangeHasMismatch(l1Log, lastScannedL1Block + 1, step'.head)) =>
       /\ \A b \in Blocks :
             (lastScannedL1Block + 1 <= b /\ b <= step'.head) =>
                 \A i \in 1..Len(l1Log[b]) :
                     (WellFormed(l1Log[b][i])
                         /\ ExpectedHash(l1Log[b][i]) \notin QueueHashes(messageQueue))
                       => ExpectedHash(l1Log[b][i]) \notin QueueHashes(messageQueue')
       /\ metrics'.messagesSent = metrics.messagesSent
       /\ lastScannedL1Block' = lastScannedL1Block

\* C28: a sender mismatch in one transaction fails the whole scanned batch:
\* no message of the range, well-formed messages of other transactions
\* included, is added to the store in that cycle, and the source cursor is
\* left where it was.
C28_MismatchFailsWholeBatch == [][C28_Step]_vars

\* An Indexing step failed on a range that holds a mismatching transaction
\* and, in another block, a well-formed message the store does not have.
C28_Witness ==
    /\ step.op = "index" /\ step.err
    /\ RangeHasMismatch(l1Log, lastScannedL1Block + 1, step.head)
    /\ \E b \in Blocks :
         /\ lastScannedL1Block + 1 <= b /\ b <= step.head
         /\ l1Log[b] # <<>>
         /\ WellFormed(l1Log[b][1])
         /\ ExpectedHash(l1Log[b][1]) \notin QueueHashes(messageQueue)

\* The number of send events in the blocks from..to of the source log
EventCount(log, from, to) ==
    Len(QuerySentMessage(log, from, to))

\* The start-up scan inserts the events of [start block, head] and sets the
\* cursor to head; a later scan inserts those of [cursor + 1, head] and sets
\* the cursor to head; no scan is made for a head not above the cursor; a
\* failed step keeps the cursors.
C29_Step ==
    /\ (pc = "init" /\ step'.op = "historical" /\ ~step'.err) =>
          /\ lastScannedL1Block' = step'.head
          /\ metrics'.messagesSent =
                 EventCount(l1Log, l1StartBlock, step'.head)
    /\ (pc = "index" /\ step'.op = "index" /\ ~step'.err) =>
          IF step'.head > lastScannedL1Block
          THEN /\ lastScannedL1Block' = step'.head
               /\ metrics'.messagesSent = metrics.messagesSent +
                      EventCount(l1Log, lastScannedL1Block + 1, step'.head)
          ELSE /\ lastScannedL1Block' = lastScannedL1Block
               /\ metrics'.messagesSent = metrics.messagesSent
    /\ (pc = "confirm" /\ step'.op = "confirm" /\ ~step'.err) =>
          lastScannedL2Block' = Max(lastScannedL2Block, step'.head)
    /\ (pc \in {"index", "confirm"} /\ step'.err) =>
          /\ lastScannedL1Block' = lastScannedL1Block
          /\ lastScannedL2Block' = lastScannedL2Block

IndexedUpToCursor ==
    \A b \in Blocks :
        (l1StartBlock <= b /\ b <= lastScannedL1Block) =>
            \A i \in 1..Len(l1Log[b]) :
                ExpectedHash(l1Log[b][i]) \in QueueHashes(messageQueue)

\* C30 (as stated): in every reachable state, every send event in a source
\* block between the configured start block and the source cursor (both
\* inclusive) has a record in the store.
C30_IndexedUpToCursorAlways == IndexedUpToCursor

\* C30 (amended): in every state after start-up indexing has completed,
\* every send event in a source block between the configured start block and
\* the source cursor has a record in the store; the cursor never passes a
\* block whose send events were not all inserted, also when a cycle fails
\* part-way through a batch.
C30_IndexedUpToCursorAfterStartup == pc \in LoopPcs => IndexedUpToCursor

\* A cycle failed part-way through a batch: the store holds a record of a
\* block beyond the cursor, which did not move.
C30_Witness ==
    /\ pc = "index"
    /\ step.op = "index" /\ step.err
    /\ failures > 0
    /\ \E i \in 1..Len(messageQueue) :
         messageQueue[i].blockNumber > lastScannedL1Block
    /\ IndexedUpToCursor

\* C31: once a message hash is Relayed, by a confirmation or by a relay, the
\* Relay Executor never submits another relay transaction for that hash, in
\* the cycle of the confirmation or in any later cycle.
C31_RelayedNeverResubmitted == inFlight \cap everRelayed = {}

\* The balance of the relay sender after the funding step that main is said
\* to begin every cycle with
Funded(balance) ==
    IF balance < MinimumMessengerBalance THEN TargetMessengerBalance
    ELSE balance

\* The step that begins a cycle leaves the relay sender funded.
C37_Step ==
    (pc = "index" /\ step'.op = "index") =>
        messengerBalance' = Funded(messengerBalance)

\* C37: in every cycle, before any relay is attempted, the balance of the
\* relay sender on the destination chain is set to the configured target if
\* it is below the configured minimum, and left unchanged otherwise.
C37_RelaySenderKeptFunded == [][C37_Step]_vars

\* C32: between steps, the messagesSent metric equals the number of records
\* in the store, also after a cycle that aborted part-way through a batch and
\* after a send event whose hash was already stored.
C32_SentCountsRecords == metrics.messagesSent = Len(messageQueue)

\* C33: between steps, the messagesRelayed metric equals the number of
\* records whose status is Relayed: each message is counted once, however it
\* was marked and however often its hash was reported.
C33_RelayedCountsRelayedRecords ==
    metrics.messagesRelayed = Cardinality(RelayedHashes(messageQueue))

\* C34: the pending-messages gauge is never negative and never exceeds the
\* number of records in the store, in any state, those in the middle of a
\* cycle included.
C34_PendingGaugeInRange ==
    /\ metrics.pendingMessages >= 0
    /\ metrics.pendingMessages <= Len(messageQueue)

\* Every send of the transaction has a secondary event of its own sender
AllSendsExtended(calls) ==
    \A i \in 1..Len(calls) :
        calls[i].ext.present /\ calls[i].ext.sender = calls[i].sender

\* C36: when one source transaction emits several send events, each with its
\* own secondary event, every resulting message is given the value of the
\* secondary event that belongs to it, not the value of another send of the
\* same transaction.
C36_EachSendItsOwnValue ==
    (scanned.called /\ Len(tx) >= 2 /\ AllSendsExtended(tx)) =>
        /\ ~scanned.err
        /\ Len(scanned.msgs) = Len(tx)
        /\ \A i \in 1..Len(tx) : scanned.msgs[i].value = tx[i].ext.value

RECURSIVE SumAmounts(_, _)
\* The sum of the amounts of the events of a token
SumAmounts(events, token) ==
    IF events = <<>> THEN 0
    ELSE (IF events[1].localToken = token THEN events[1].amount ELSE 0)
         + SumAmounts(Tail(events), token)

\* C38: in the bridge monitor, for each token and direction the ERC20
\* bridge-volume value equals the sum of the amounts of all bridge events of
\* that token and direction observed so far, whether the start-up scan or a
\* later scan found them.
C38_VolumeIsSumOfAmounts ==
    pc \in {"mon_check", "mon_sleep"} =>
        /\ \A t \in Tokens :
              bridgeVolume["l1-to-l2"][t] =
                  SumAmounts(GetERC20BridgeEvents(bridgeEvents["l1-to-l2"],
                                 l1StartBlock, lastScannedL1Block), t)
        /\ \A t \in Tokens :
              bridgeVolume["l2-finalized"][t] =
                  SumAmounts(GetERC20BridgeEvents(bridgeEvents["l2-finalized"],
                                 0, lastScannedL2Block), t)

\* A step failed because a chain read rejected, not because of a sender
\* mismatch in the range scanned
ReadFailed ==
    \/ pc = "crashed" /\ ~RangeHasMismatch(l1Log, l1StartBlock, step.head)
    \/ /\ pc # "crashed" /\ step.err
       /\ ~(step.op = "index"
            /\ RangeHasMismatch(l1Log, lastScannedL1Block + 1, step.head))

\* A relay attempt of the current Relaying step rejected
RelayFailed ==
    \E k \in 1..Len(attempts) : attempts[k].outcome \in {"sendError", "noReceipt"}

\* Chain reads succeed, relay attempts succeed and the Indexing steps see the
\* whole source chain
Favourable ==
    /\ ~ReadFailed
    /\ ~RelayFailed
    /\ step.op = "index" => step.head = MaxBlock

\* Every send event at or after the start block is stored and Relayed
AllRelayed ==
    \A b \in Blocks :
        l1StartBlock <= b =>
            \A i \in 1..Len(l1Log[b]) :
                IsRelayed(messageQueue, ExpectedHash(l1Log[b][i]))

\* No transaction of the source chain has a sender mismatch
NoMismatch == ~RangeHasMismatch(l1Log, 1, MaxBlock)

====
